---------------------------- MODULE Spec2Model ----------------------------
(***************************************************************************)
(* Model of and1tran/local_cleanup_tool.                                   *)
(*                                                                         *)
(*  - src/jnt_xml_read_write.py: write_xml / deeper_write serialise the    *)
(*    joint hierarchy under the selected joint to an XML file, read_xml /  *)
(*    deeper_read rebuild a hierarchy from such a file.                    *)
(*  - src/local_cleanup_tool: the dialog that lists the versions of a      *)
(*    local directory and deletes the checked ones.                        *)
(*                                                                         *)
(* The scripts drive the host (Maya) through maya.cmds, and every node is  *)
(* handed to and from the host as a STRING: its short name when that name  *)
(* is unique in the scene, otherwise a DAG path ("a|x", "|r").  The host   *)
(* commands the scripts call are modelled as operators Host... with the    *)
(* behaviour of the command the source line names.                         *)
(***************************************************************************)
EXTENDS Integers, Sequences, FiniteSets, TLC

(***************************************************************************)
(* Bounds of the model.                                                    *)
(***************************************************************************)
\* nodes of the scene the user built before the scripts run
MaxScene == 3
\* nodes of the scene a hand-made document is read into
MaxPre == 1
\* Elements of a hand-made input document
MaxElems == 3
\* number of write_xml / read_xml calls and scene resets in one run
MaxOps == 3

\* short names (and XML tags); the host's renamed names are n + 10*k
Names == {1, 2, 3}

\* world positions, in units of 1/32: every component is exact in binary
\* floating point, so "%.3f" is decided by the exact value.
\*   0, 4, -8, 400 : multiples of 0.001 (0.000, 0.125, -0.250, 12.500)
\*   1, 3          : 0.03125 rounds down, 0.09375 rounds up
\*   -2            : -0.0625 is a tie, rounded half to even ("-0.062")
Keys == <<"translateX", "translateY", "translateZ">>

KeySet == {Keys[i] : i \in 1..3}

(***************************************************************************)
(* Small helpers.                                                          *)
(***************************************************************************)
Abs(x) == IF x < 0 THEN -x ELSE x

SetMin(S) == CHOOSE x \in S : \A y \in S : x <= y

Range(s) == {s[i] : i \in 1..Len(s)}

IsSuffix(p, q) ==
    /\ Len(p) <= Len(q)
    /\ SubSeq(q, Len(q) - Len(p) + 1, Len(q)) = p


(***************************************************************************)
(* Attribute strings.  A string is a sequence of one-character strings, a  *)
(* position component an integer in units of 1/32000 (so that both k/32    *)
(* and m/1000 are integers).                                               *)
(***************************************************************************)
DigitChars == <<"0", "1", "2", "3", "4", "5", "6", "7", "8", "9">>

DigitChar(d) == DigitChars[d + 1]

IsDigit(c) == \E d \in 0..9 : DigitChars[d + 1] = c

DigitVal(c) == CHOOSE d \in 0..9 : DigitChars[d + 1] = c

RECURSIVE Digits(_)
Digits(n) ==
    IF n < 10 THEN <<DigitChar(n)>>
    ELSE Append(Digits(n \div 10), DigitChar(n % 10))

\* |v| in thousandths, rounded to nearest, ties to even (the exact value of
\* the double decides; every value of the model is exact in binary).
Thousandths(v) ==
    LET q == Abs(v) \div 32
        r == Abs(v) % 32
    IN  IF r < 16 THEN q
        ELSE IF r > 16 THEN q + 1
        ELSE IF q % 2 = 0 THEN q ELSE q + 1

\* a slip of the format string: "%.2f" % v
Fmt2digits(v) ==
    LET m == Thousandths(v) \div 10
    IN  (IF v < 0 THEN <<"-">> ELSE <<>>)
        \o Digits(m \div 100)
        \o <<".">>
        \o <<DigitChar((m \div 10) % 10), DigitChar(m % 10)>>

\* "%.3f" % v
Fmt3(v) ==
    LET m == Thousandths(v)
    IN  (IF v < 0 THEN <<"-">> ELSE <<>>)
        \o Digits(m \div 1000)
        \o <<".">>
        \o <<DigitChar((m \div 100) % 10), DigitChar((m \div 10) % 10),
             DigitChar(m % 10)>>

\* the three attributes deeper_write sets from objTranslate
TranslateAttrs(pos) == [k \in KeySet |->
    Fmt3(pos[CHOOSE i \in 1..3 : Keys[i] = k])]

RECURSIVE DigitsVal(_)
DigitsVal(s) ==
    IF s = <<>> THEN 0
    ELSE 10 * DigitsVal(SubSeq(s, 1, Len(s) - 1)) + DigitVal(s[Len(s)])

\* the decimal strings the host accepts as a distance: [-]digits[.digits],
\* with at most three fractional digits in this model
IsNumeric(s) ==
    LET b == IF s # <<>> /\ s[1] = "-" THEN Tail(s) ELSE s
        dots == {i \in 1..Len(b) : b[i] = "."}
    IN  /\ b # <<>>
        /\ Cardinality(dots) <= 1
        /\ \A i \in 1..Len(b) : i \in dots \/ IsDigit(b[i])
        /\ \A i \in dots : i > 1 /\ Len(b) - i \in 1..3

\* the value of a numeric string, in units of 1/32000
ParseFloat(s) ==
    LET neg == s[1] = "-"
        b == IF neg THEN Tail(s) ELSE s
        dots == {i \in 1..Len(b) : b[i] = "."}
        dot == IF dots = {} THEN Len(b) + 1 ELSE CHOOSE i \in dots : TRUE
        ip == DigitsVal(SubSeq(b, 1, dot - 1))
        fr == SubSeq(b, dot + 1, Len(b))
        scale == CASE Len(fr) = 0 -> 0
                   [] Len(fr) = 1 -> 3200
                   [] Len(fr) = 2 -> 320
                   [] OTHER -> 32
        mag == ip * 32000 + DigitsVal(fr) * scale
    IN  IF neg THEN -mag ELSE mag

(***************************************************************************)
(* The host scene graph.  Nodes are 1..Len(sc.name); parent 0 is the       *)
(* world.  sc.order lists the nodes so that the children of a node, in the *)
(* order the host lists them, are the nodes of sc.order with that parent   *)
(* (a created or reparented node goes to the end of its new sibling list). *)
(***************************************************************************)
EmptyScene == [name |-> <<>>, parent |-> <<>>, pos |-> <<>>, joint |-> <<>>,
               order |-> <<>>]

Nodes(sc) == 1..Len(sc.name)

Children(sc, p) == SelectSeq(sc.order, LAMBDA n : sc.parent[n] = p)

RECURSIVE PathOf(_, _)
PathOf(sc, n) ==
    IF n = 0 THEN <<>> ELSE Append(PathOf(sc, sc.parent[n]), sc.name[n])

RECURSIVE AncestorsOrSelf(_, _)
AncestorsOrSelf(sc, n) ==
    IF n = 0 THEN {} ELSE {n} \cup AncestorsOrSelf(sc, sc.parent[n])

\* the nodes a name or DAG path denotes: a path starting with "|" (0) is
\* absolute, any other matches the end of a node's path
Matches(sc, h) ==
    IF h # <<>> /\ h[1] = 0
    THEN {n \in Nodes(sc) : PathOf(sc, n) = Tail(h)}
    ELSE {n \in Nodes(sc) : h # <<>> /\ IsSuffix(h, PathOf(sc, n))}

\* the string by which the host returns node n: the shortest partial path
\* that denotes only n
Handle(sc, n) ==
    LET p == PathOf(sc, n)
        suf(k) == SubSeq(p, Len(p) - k + 1, Len(p))
        ks == {k \in 1..Len(p) : Matches(sc, suf(k)) = {n}}
    IN  IF ks # {} THEN suf(SetMin(ks)) ELSE <<0>> \o p

\* the name the host gives a node whose wanted name is taken by a sibling
FreshName(sc, base) ==
    LET used == Range(sc.name)
    IN  base + 10 * SetMin({k \in 1..(Len(sc.name) + 1) : base + 10 * k \notin used})

SiblingNames(sc, p) == {sc.name[n] : n \in {m \in Nodes(sc) : sc.parent[m] = p}}

(***************************************************************************)
(* The host commands the scripts call.                                     *)
(***************************************************************************)
\* cmds.joint(name=t, absolute=True, position=pos) with node p selected
\* (p = 0: nothing selected).  In creation mode the joint becomes a child of
\* the selected transform, or starts a hierarchy of its own when nothing is
\* selected; a name already used by a sibling is replaced by a fresh one.
HostJoint(sc, p, t, pos) ==
    LET n == Len(sc.name) + 1
        nm == IF t \in SiblingNames(sc, p) THEN FreshName(sc, t) ELSE t
    IN  [name |-> Append(sc.name, nm), parent |-> Append(sc.parent, p),
         pos |-> Append(sc.pos, pos), joint |-> Append(sc.joint, TRUE),
         order |-> Append(sc.order, n)]

\* cmds.parent(ch, ph): both arguments are strings.  The command fails when
\* either names no node or several, when the child is the parent or one of
\* its ancestors, or when it already is a child of the parent.  The world
\* position is kept; the moved node ends up last among its new siblings and
\* is the selection afterwards.
HostParent(sc, ch, ph) ==
    LET cs == Matches(sc, ch)
        ps == Matches(sc, ph)
    IN  IF Cardinality(cs) # 1 \/ Cardinality(ps) # 1
        THEN [ok |-> FALSE, scene |-> sc, moved |-> 0]
        ELSE LET c == CHOOSE x \in cs : TRUE
                 q == CHOOSE x \in ps : TRUE
                 nm == IF sc.name[c] \in SiblingNames(sc, q)
                       THEN FreshName(sc, sc.name[c]) ELSE sc.name[c]
             IN  IF c \in AncestorsOrSelf(sc, q) \/ sc.parent[c] = q
                 THEN [ok |-> FALSE, scene |-> sc, moved |-> 0]
                 ELSE [ok |-> TRUE,
                       scene |-> [sc EXCEPT !.parent[c] = q, !.name[c] = nm,
                                  !.order = Append(SelectSeq(sc.order,
                                               LAMBDA x : x # c), c)],
                       moved |-> c]

\* cmds.listRelatives(obj): the children of obj, as strings
ListRelatives(sc, h) ==
    LET n == CHOOSE x \in Matches(sc, h) : TRUE
        ch == Children(sc, n)
    IN  [i \in 1..Len(ch) |-> Handle(sc, ch[i])]

\* cmds.xform(obj, query=True, translation=True, worldSpace=True)
XformQuery(sc, h) == sc.pos[CHOOSE x \in Matches(sc, h) : TRUE]

(***************************************************************************)
(* deeper_write.  The document is kept flat: its Elements in document      *)
(* (pre-) order, each with the index of its parent Element (0: the root),  *)
(* so the child Elements of e, in order, are the later Elements with       *)
(* par = e.  src is the node the Element was made for.                     *)
(***************************************************************************)
RECURSIVE DeeperWrite(_, _, _, _), WriteChildren(_, _, _, _)
DeeperWrite(sc, obj, parIdx, acc) ==
    LET parentElement == [tag |-> obj, par |-> parIdx,
                          attrs |-> TranslateAttrs(XformQuery(sc, obj)),
                          src |-> CHOOSE x \in Matches(sc, obj) : TRUE]
        acc1 == Append(acc, parentElement)
    IN  IF ListRelatives(sc, obj) = <<>> THEN acc1
        ELSE WriteChildren(sc, ListRelatives(sc, obj), Len(acc1), acc1)

WriteChildren(sc, children, parIdx, acc) ==
    IF children = <<>> THEN acc
    ELSE WriteChildren(sc, Tail(children), parIdx,
                       DeeperWrite(sc, Head(children), parIdx, acc))

ElemKids(doc, e) == {i \in 1..Len(doc) : doc[i].par = e}

\* what et.parse accepts: every tag a plain name (a DAG path holds "|")
WellFormed(doc) == \A i \in 1..Len(doc) : Len(doc[i].tag) = 1 /\ doc[i].tag[1] # 0

(***************************************************************************)
(* State.                                                                  *)
(***************************************************************************)
VARIABLES
    scene,      \* the host scene graph
    selection,  \* the host's current selection, a set of nodes
    file,       \* the XML file: a flat document, <<>> when there is none
    wsrc,       \* per Element of a file write_xml wrote: the node it is for
    worig,      \* the scene as it was when write_xml wrote the file
    lastOp,     \* "none", "write", "read" or "new": the last operation
    retval,     \* what the last write_xml / read_xml call returned
    drRet,      \* what the outermost deeper_read call returned
    rstate,     \* deeper_read: "idle", "running", "done" or "error"
    stack,      \* deeper_read's call stack: [elem, jnt (createdJnt), next]
    made,       \* per Element: the node cmds.joint created for it, or 0
    madeUnder,  \* per Element: the parent that node had when it was created
    nCreate,    \* cmds.joint calls of the current read
    nParent,    \* cmds.parent calls of the current read
    failedAt,   \* the Element whose attribute lookup raised, or 0
    pre,        \* the scene as it was when the current read started
    prevMade,   \* made of the call before, when it read this document through
    ops,        \* write_xml / read_xml calls and scene resets so far
    dlg,        \* the LocalCleanupGUI dialog and its LocalCleanupUtil
    disk,       \* the local work folders on disk
    platform    \* "windows" or "posix": whether Python defines WindowsError

codecVars == <<scene, selection, file, wsrc, worig, lastOp, retval, drRet,
               rstate, stack, made, madeUnder, nCreate, nParent, failedAt,
               pre, prevMade, ops>>

guiVars == <<dlg, disk, platform>>

vars == <<codecVars, guiVars>>

RetBool(b) == [kind |-> "bool", val |-> b]

RetNone == [kind |-> "None", val |-> FALSE]

RetRaised == [kind |-> "raised", val |-> FALSE]

RetPending == [kind |-> "pending", val |-> FALSE]

(***************************************************************************)
(* Initial states: a scene the user built and selected in, and either no   *)
(* file yet or a document somebody wrote by hand.                          *)
(***************************************************************************)
PosList == <<<<0, 4, -8>>, <<1, -2, 400>>, <<3, 0, 4>>>>

\* node or Element i of position pattern sh, in units of 1/32000
PatternPos(sh, i) == [c \in 1..3 |-> 1000 * PosList[((i + sh) % 3) + 1][c]]

SiblingUnique(par, nm) ==
    \A i, j \in DOMAIN par : (i # j /\ par[i] = par[j]) => nm[i] # nm[j]

\* scenes of n nodes, every node made after its parent; at most the last
\* node is no joint
\* names are interchangeable, so the names of a sequence are numbered in the
\* order in which they first occur
Canonical(f) ==
    \A i \in DOMAIN f : \/ f[i] = 1
                         \/ \E j \in 1..(i - 1) : f[j] >= f[i] - 1

\* a user scene's names are canonical (canon), a pre-existing scene's nodes
\* take every name
ScenesOf(n, shifts, nonJoint, canon) ==
    { [name |-> nm, parent |-> par, pos |-> [i \in 1..n |-> PatternPos(sh, i)],
       joint |-> [i \in 1..n |-> i # nj], order |-> [i \in 1..n |-> i]] :
        nm \in {f \in [1..n -> Names] : canon => Canonical(f)},
        par \in {f \in [1..n -> 0..(n - 1)] : \A i \in 1..n : f[i] < i},
        \* a scene of three nodes or more uses every position of PosList
        sh \in (IF n >= Len(PosList) THEN {0} ELSE shifts),
        nj \in (IF nonJoint THEN {0, n} ELSE {0}) }

UserScenes(k, shifts, nonJoint, canon) ==
    UNION { {sc \in ScenesOf(n, shifts, nonJoint, canon) :
                SiblingUnique(sc.parent, sc.name)} : n \in 0..k }

\* what the user may have selected: nothing, one node, or the first two
Selections(sc) ==
    {{}} \cup {{n} : n \in Nodes(sc)}
         \cup (IF Len(sc.name) >= 2 THEN {{1, 2}} ELSE {})

RECURSIVE ElemAncestors(_, _)
ElemAncestors(par, i) ==
    IF i = 0 THEN {} ELSE {i} \cup ElemAncestors(par, par[i])

\* parent indices of a document in document order
IsPreorder(par) ==
    /\ par[1] = 0
    /\ \A i \in 2..Len(par) : par[i] \in ElemAncestors(par, i - 1)

\* which attribute a hand-made document lacks: none, translateZ of one
\* Element, or translateX of the only Element
Lacks(n) ==
    {[at |-> 0, key |-> "translateZ"]}
    \cup {[at |-> i, key |-> "translateZ"] : i \in 1..n}
    \cup (IF n = 1 THEN {[at |-> 1, key |-> "translateX"]} ELSE {})

DocsOf(n) ==
    { [i \in 1..n |->
         [tag |-> <<tg[i]>>, par |-> par[i],
          attrs |-> [k \in (IF i = miss.at THEN KeySet \ {miss.key}
                                           ELSE KeySet) |->
                        TranslateAttrs(PatternPos(sh, i))[k]]]] :
        tg \in {f \in [1..n -> Names] : Canonical(f)},
        par \in {f \in [1..n -> 0..(n - 1)] : IsPreorder(f)},
        sh \in {1}, miss \in Lacks(n) }

Docs == UNION {DocsOf(n) : n \in 1..MaxElems}

InitGhost ==
    /\ wsrc = <<>>
    /\ worig = EmptyScene
    /\ lastOp = "none"
    /\ retval = RetPending
    /\ drRet = RetPending
    /\ rstate = "idle"
    /\ stack = <<>>
    /\ made = <<>>
    /\ madeUnder = <<>>
    /\ nCreate = 0
    /\ nParent = 0
    /\ failedAt = 0
    /\ pre = EmptyScene
    /\ prevMade = <<>>
    /\ ops = 0

InitScene ==
    /\ scene \in UserScenes(MaxScene, 0..2, TRUE, TRUE)
    /\ selection \in Selections(scene)
    /\ file = <<>>

InitDoc ==
    /\ scene \in UserScenes(MaxPre, {0}, FALSE, FALSE)
    /\ selection \in {S \in Selections(scene) :
                         S = {} \/ S = {Len(scene.name)}}
    /\ file \in Docs

InitCodec == (InitScene \/ InitDoc) /\ InitGhost

(***************************************************************************)
(* write_xml (lines 36-87).                                                *)
(***************************************************************************)
StripSrc(doc) == [i \in 1..Len(doc) |->
    [tag |-> doc[i].tag, par |-> doc[i].par, attrs |-> doc[i].attrs]]

\* a slip of line 147: cmds.xform without query=True sets the translation
\* (to the origin) instead of reading it
WriteXmlMoving ==
    /\ rstate # "running"
    /\ ops < MaxOps
    /\ ops' = ops + 1
    /\ Cardinality(selection) = 1
    /\ \E n \in selection :
         /\ scene.joint[n]
         /\ LET doc == DeeperWrite(scene, Handle(scene, n), 0, <<>>)
            IN  /\ file' = StripSrc(doc)
                /\ wsrc' = [i \in 1..Len(doc) |-> doc[i].src]
                /\ scene' = [scene EXCEPT !.pos = [m \in Nodes(scene) |->
                      IF m \in {doc[i].src : i \in 1..Len(doc)}
                      THEN <<0, 0, 0>> ELSE scene.pos[m]]]
    /\ worig' = scene
    /\ retval' = RetBool(TRUE)
    /\ lastOp' = "write"
    /\ rstate' = "idle"
    /\ made' = <<>>
    /\ madeUnder' = <<>>
    /\ UNCHANGED <<selection, drRet, stack, nCreate, nParent, failedAt, pre, prevMade,
                   guiVars>>

WriteXml ==
    /\ rstate # "running"
    /\ ops < MaxOps
    /\ ops' = ops + 1
    /\ lastOp' = "write"
    /\ rstate' = "idle"
    /\ made' = <<>>
    /\ madeUnder' = <<>>
    /\ UNCHANGED <<scene, selection, drRet, stack, nCreate, nParent, failedAt,
                   pre, prevMade, guiVars>>
    /\ \/ \* the file dialog was cancelled
          /\ retval' = RetBool(FALSE)
          /\ UNCHANGED <<file, wsrc, worig>>
       \/ \* nothing, several nodes or no joint selected: cmds.error raises
          /\ \/ Cardinality(selection) # 1
             \/ \E n \in selection : ~scene.joint[n]
          /\ retval' = RetRaised
          /\ UNCHANGED <<file, wsrc, worig>>
       \/ /\ Cardinality(selection) = 1
          /\ \E n \in selection :
               /\ scene.joint[n]
               /\ LET doc == DeeperWrite(scene, Handle(scene, n), 0, <<>>)
                  IN  /\ file' = StripSrc(doc)
                      /\ wsrc' = [i \in 1..Len(doc) |-> doc[i].src]
          /\ worig' = scene
          /\ retval' = RetBool(TRUE)

\* File > New Scene in the host, to read a written file back: the scene is
\* emptied
NewScene ==
    /\ rstate # "running"
    /\ ops < MaxOps
    /\ ops' = ops + 1
    /\ scene # EmptyScene
    /\ file # <<>>
    /\ lastOp = "write"
    /\ scene' = EmptyScene
    /\ selection' = {}
    /\ lastOp' = "new"
    /\ rstate' = "idle"
    /\ made' = <<>>
    /\ madeUnder' = <<>>
    /\ UNCHANGED <<file, wsrc, worig, retval, drRet, stack, nCreate, nParent,
                   failedAt, pre, prevMade, guiVars>>

(***************************************************************************)
(* read_xml (lines 89-128) and deeper_read (lines 165-184), one host       *)
(* command per step.                                                       *)
(***************************************************************************)
ReadXml ==
    /\ rstate # "running"
    /\ ops < MaxOps
    /\ ops' = ops + 1
    /\ lastOp' = "read"
    /\ made' = [i \in 1..Len(file) |-> 0]
    /\ madeUnder' = [i \in 1..Len(file) |-> 0]
    /\ nCreate' = 0
    /\ nParent' = 0
    /\ failedAt' = 0
    /\ pre' = scene
    /\ prevMade' = IF lastOp = "read" /\ rstate = "done" THEN made ELSE <<>>
    /\ drRet' = RetPending
    /\ UNCHANGED <<scene, selection, file, wsrc, worig, guiVars>>
    /\ \/ \* no path given and the dialog cancelled
          /\ retval' = RetBool(FALSE)
          /\ rstate' = "idle"
          /\ stack' = <<>>
       \/ \* os.path.isfile(xml_path) is false
          /\ file = <<>>
          /\ retval' = RetNone
          /\ rstate' = "idle"
          /\ stack' = <<>>
       \/ \* et.parse raises on a document that is not well-formed
          /\ file # <<>>
          /\ ~WellFormed(file)
          /\ retval' = RetRaised
          /\ rstate' = "idle"
          /\ stack' = <<>>
       \/ /\ file # <<>>
          /\ WellFormed(file)
          /\ retval' = RetPending
          /\ rstate' = "running"
          /\ stack' = <<[elem |-> 1, jnt |-> <<>>, next |-> 1]>>

Top == stack[Len(stack)]

KidsOf(e) == SelectSeq([i \in 1..Len(file) |-> i], LAMBDA i : file[i].par = e)

HasAttrs(el) ==
    /\ KeySet \subseteq DOMAIN el.attrs
    /\ \A k \in KeySet : IsNumeric(el.attrs[k])

Abort ==
    /\ rstate' = "error"
    /\ stack' = <<>>
    /\ retval' = RetRaised
    /\ drRet' = RetRaised

\* a deeper_read that makes the joint before it looks the attributes up
CreateJntLate ==
    /\ rstate = "running"
    /\ Top.jnt = <<>>
    /\ UNCHANGED <<file, wsrc, worig, lastOp, nParent, pre, prevMade, ops, guiVars>>
    /\ LET e == Top.elem
           el == file[e]
       IN  \E p \in (IF selection = {} THEN {0} ELSE selection) :
             LET pos == IF HasAttrs(el)
                        THEN [c \in 1..3 |-> ParseFloat(el.attrs[Keys[c]])]
                        ELSE [c \in 1..3 |-> 0]
                 sc == HostJoint(scene, p, el.tag[1], pos)
                 n == Len(sc.name)
             IN  /\ scene' = sc
                 /\ made' = [made EXCEPT ![e] = n]
                 /\ madeUnder' = [madeUnder EXCEPT ![e] = p]
                 /\ nCreate' = nCreate + 1
                 /\ IF HasAttrs(el)
                    THEN /\ stack' = [stack EXCEPT ![Len(stack)].jnt =
                                                      Handle(sc, n)]
                         /\ selection' = {}
                         /\ UNCHANGED <<retval, drRet, rstate, failedAt>>
                    ELSE /\ Abort
                         /\ failedAt' = e
                         /\ UNCHANGED selection

\* lines 173-177: the attribute lookups, cmds.joint, cmds.select(clear=True)
CreateJnt ==
    /\ rstate = "running"
    /\ Top.jnt = <<>>
    /\ UNCHANGED <<file, wsrc, worig, lastOp, nParent, pre, prevMade, ops, guiVars>>
    /\ LET e == Top.elem
           el == file[e]
       IN  \/ \* obj.attrib[...] raises KeyError before any node is made
              /\ ~HasAttrs(el)
              /\ Abort
              /\ failedAt' = e
              /\ UNCHANGED <<scene, selection, made, madeUnder, nCreate>>
           \/ /\ HasAttrs(el)
              /\ \E p \in (IF selection = {} THEN {0} ELSE selection) :
                   LET pos == [c \in 1..3 |-> ParseFloat(el.attrs[Keys[c]])]
                       sc == HostJoint(scene, p, el.tag[1], pos)
                       n == Len(sc.name)
                   IN  /\ scene' = sc
                       /\ made' = [made EXCEPT ![e] = n]
                       /\ madeUnder' = [madeUnder EXCEPT ![e] = p]
                       /\ stack' = [stack EXCEPT ![Len(stack)].jnt =
                                                    Handle(sc, n)]
              /\ selection' = {}
              /\ nCreate' = nCreate + 1
              /\ UNCHANGED <<retval, drRet, rstate, failedAt>>

\* a deeper_read whose loop over the children runs before its own joint
\* is made
DescendBeforeCreate ==
    /\ rstate = "running"
    /\ Top.next <= Len(KidsOf(Top.elem))
    /\ stack' = Append(stack, [elem |-> KidsOf(Top.elem)[Top.next],
                               jnt |-> <<>>, next |-> 1])
    /\ UNCHANGED <<scene, selection, file, wsrc, worig, lastOp, retval, drRet,
                   rstate, made, madeUnder, nCreate, nParent, failedAt, pre,
                   prevMade, ops, guiVars>>

\* line 183: deeper_read(child) for the next child Element
Descend ==
    /\ rstate = "running"
    /\ Top.jnt # <<>>
    /\ Top.next <= Len(KidsOf(Top.elem))
    /\ stack' = Append(stack, [elem |-> KidsOf(Top.elem)[Top.next],
                               jnt |-> <<>>, next |-> 1])
    /\ UNCHANGED <<scene, selection, file, wsrc, worig, lastOp, retval, drRet,
                   rstate, made, madeUnder, nCreate, nParent, failedAt, pre, prevMade,
                   ops, guiVars>>

\* the child's call returns, then line 184: cmds.parent(child.tag, createdJnt)
ParentChild ==
    /\ rstate = "running"
    /\ Top.jnt # <<>>
    /\ Top.next > Len(KidsOf(Top.elem))
    /\ Len(stack) > 1
    /\ nParent' = nParent + 1
    /\ UNCHANGED <<file, wsrc, worig, lastOp, made, madeUnder, nCreate,
                   failedAt, pre, prevMade, ops, guiVars>>
    /\ LET caller == stack[Len(stack) - 1]
           r == HostParent(scene, file[Top.elem].tag, caller.jnt)
       IN  \/ /\ ~r.ok
              /\ Abort
              /\ UNCHANGED <<scene, selection>>
           \/ /\ r.ok
              /\ scene' = r.scene
              /\ selection' = {r.moved}
              /\ stack' = [SubSeq(stack, 1, Len(stack) - 1) EXCEPT
                              ![Len(stack) - 1].next = caller.next + 1]
              /\ UNCHANGED <<retval, drRet, rstate>>

\* a deeper_read that ends with "return createdJnt"
FinishReturningJnt ==
    /\ rstate = "running"
    /\ Top.jnt # <<>>
    /\ Top.next > Len(KidsOf(Top.elem))
    /\ Len(stack) = 1
    /\ rstate' = "done"
    /\ stack' = <<>>
    /\ drRet' = [kind |-> "node", val |-> TRUE]
    /\ retval' = RetBool(TRUE)
    /\ UNCHANGED <<scene, selection, file, wsrc, worig, lastOp, made,
                   madeUnder, nCreate, nParent, failedAt, pre, prevMade, ops, guiVars>>

\* the outermost deeper_read falls off its end (it returns None), then
\* read_xml line 128: return True
Finish ==
    /\ rstate = "running"
    /\ Top.jnt # <<>>
    /\ Top.next > Len(KidsOf(Top.elem))
    /\ Len(stack) = 1
    /\ rstate' = "done"
    /\ stack' = <<>>
    /\ drRet' = RetNone
    /\ retval' = RetBool(TRUE)
    /\ UNCHANGED <<scene, selection, file, wsrc, worig, lastOp, made,
                   madeUnder, nCreate, nParent, failedAt, pre, prevMade, ops, guiVars>>

NextCodec ==
    \/ WriteXml
    \/ NewScene
    \/ ReadXml
    \/ CreateJnt
    \/ Descend
    \/ ParentChild
    \/ Finish

(***************************************************************************)
(* The local cleanup dialog: LocalCleanupGUI (local_cleanup_gui.py) and   *)
(* its LocalCleanupUtil (local_cleanup_utils.py).                          *)
(*                                                                         *)
(* dlg is the dialog object: its combo boxes (items, current text,        *)
(* enabled), its attributes, its tree rows and total-size label, and the  *)
(* util's local_path and found_versions.  A combo box emits               *)
(* currentIndexChanged when its current index changes: on clear() of a    *)
(* box with a current item (the text is ""), on addItems to an empty box  *)
(* (the first item becomes current), on setCurrentText to another item,   *)
(* and when the user picks another item.  The slot runs inside the call   *)
(* that emitted, so a handler below includes the handlers it sets off;    *)
(* those are only ever given "None" or "".                                *)
(* A version folder is its number; found_versions is the dict's key       *)
(* order with the folder it was read from.                                *)
(***************************************************************************)

\* version folders a discipline folder may hold
MaxVersions == 5

\* listing orders of a folder that are explored
MaxOrders == 2

\* the item "active" of a discipline folder (utils line 146)
Active == 0

\* rows populate_tree_view leaves without ItemIsEnabled (gui line 602)
Protected == 3

\* verify_versions wants more versions than this (gui line 518)
VerifyMin == 3

\* Python's None as the value of an attribute
PyNone == "<None>"

ASSET == "asset"

SHOT == "shot"

\* what the project reader answers (gui lines 147, 367, 379, 416, 424)
UserProjects == <<"proj">>

AssetNames == <<"barrel">>

AssetType == "prop"

SequenceNames == <<"9000">>

ShotNames == <<"0010">>

\* gui lines 97-99 and 102-104
asset_disc_list == <<"model", "rig", "surface">>

shot_disc_list == <<"ani", "cfx", "lit">>

Versions == 1..MaxVersions

\* the orders os.listdir lists version folders in: it promises none, the
\* model takes the sorted order and its first rotations
ListOrders == {[i \in Versions |-> ((i + k - 1) % MaxVersions) + 1] :
                 k \in 0..(MaxOrders - 1)}

Reverse(s) == [i \in 1..Len(s) |-> s[Len(s) + 1 - i]]

\* context.eval_path: the folder of the given kwargs, None when one is unset
eval_path(kwargs) ==
    IF \E i \in 1..Len(kwargs) : kwargs[i] = PyNone THEN PyNone ELSE kwargs

AssetDir(disc) == <<ASSET, UserProjects[1], AssetType, AssetNames[1], disc>>

ShotDir(disc) == <<SHOT, UserProjects[1], SequenceNames[1], ShotNames[1], disc>>

Dirs == {AssetDir(asset_disc_list[i]) : i \in 1..3}
        \cup {ShotDir(shot_disc_list[i]) : i \in 1..3}

\* the name, less ".ma", of the Maya files of a discipline folder: the
\* asset's name, or the parts of disc_seq_shot
KeyOf(p) == IF p[1] = ASSET THEN <<p[4]>> ELSE <<p[5], p[3], p[4]>>

\* a discipline folder: whether it exists, its version folders that hold a
\* Maya file, that file's name, and whether it holds a folder "active"
Folder(isdir, vers, key, active) ==
    [isdir |-> isdir, vers |-> vers, key |-> key, active |-> active]

\* os.listdir(local_path) (utils line 138), in arbitrary order ord
ListDir(dir, ord) ==
    LET listed == SelectSeq(ord, LAMBDA v : v \in dir.vers)
    IN  IF dir.active THEN <<Active>> \o listed ELSE listed

\* the disk before the dialog opens: the model folder holds n versions, rig
\* and ani as many as are protected, lit one fewer, cfx only "active", and
\* surface does not exist
InitDisk(n) ==
    [p \in Dirs |->
        CASE p[5] = "model" -> Folder(TRUE, 1..n, KeyOf(p), TRUE)
          [] p[5] \in {"rig", "ani"} ->
                 Folder(TRUE, 1..Protected, KeyOf(p), FALSE)
          [] p[5] = "lit" -> Folder(TRUE, 1..(Protected - 1), KeyOf(p), TRUE)
          [] p[5] = "cfx" -> Folder(TRUE, {}, KeyOf(p), TRUE)
          [] OTHER -> Folder(FALSE, {}, KeyOf(p), FALSE)]

Combo(items, cur, enabled) ==
    [items |-> items, cur |-> cur, enabled |-> enabled]

NoVersions == [dir |-> PyNone, vers |-> <<>>]

\* what the last delete_versions call was given and met: whether it ran,
\* the checked versions, and those whose folder shutil.rmtree cannot remove
NoDelete == [ran |-> FALSE, checked |-> {}, fails |-> {}]

\* the dialog after __init__ and init_gui (gui lines 45-127, 129-256)
InitDlg ==
    [project_cb |-> Combo(<<"None">> \o UserProjects, "None", TRUE),
     context_cb |-> Combo(<<"None", ASSET, SHOT>>, "None", FALSE),
     as_seq_cb |-> Combo(<<"None">>, "None", FALSE),
     as_disc_shot_cb |-> Combo(<<"None">>, "None", FALSE),
     shot_disc_cb |-> Combo(<<"None">> \o shot_disc_list, "None", FALSE),
     project |-> PyNone,
     context_type |-> PyNone,
     asset_name |-> PyNone,
     asset_type |-> PyNone,
     asset_disc |-> PyNone,
     seq_name |-> PyNone,
     shot_name |-> PyNone,
     shot_disc |-> PyNone,
     local_path |-> PyNone,
     found_versions |-> NoVersions,
     tree |-> <<>>,
     total |-> 0,
     raised |-> "",
     rm |-> NoDelete,
     gvd |-> FALSE]

\* gui lines 493-499
clear_tree_contents(d) == [d EXCEPT !.tree = <<>>, !.total = 0]

\* gui lines 485-491; the box is shown exactly when it is enabled
set_shot_disc_state(d, bool) == [d EXCEPT !.shot_disc_cb.enabled = bool]

\* gui lines 501-522
verify_versions(d) == Len(d.found_versions.vers) > VerifyMin

\* gui lines 524-532; every version's .ma file has size one
calculate_new_total_size(d) ==
    [d EXCEPT !.total = Len(d.found_versions.vers)]

\* gui lines 582-612: the dict's keys reversed, the first rows not enabled
populate_tree_view(d) ==
    IF d.found_versions.vers = <<>>
    THEN d
    ELSE LET rev == Reverse(d.found_versions.vers)
             rows == [count \in 1..Len(rev) |->
                        [ver |-> rev[count],
                         enabled |-> ~(count - 1 < Protected),
                         checked |-> FALSE]]
         IN  calculate_new_total_size([d EXCEPT !.tree = rows])

\* utils lines 115-176: [ok, d]; found_versions is replaced on success only
search_for_versions(d, dk, key_str, ord) ==
    IF d.local_path \notin DOMAIN dk \/ ~dk[d.local_path].isdir
    THEN [ok |-> FALSE, d |-> d]
    ELSE LET dir == dk[d.local_path]
             disc_contents == ListDir(dir, ord)
             disc_folders ==
                 SelectSeq(disc_contents,
                           LAMBDA item : /\ item # Active
                                         /\ item \in dir.vers
                                         /\ dir.key = key_str)
         IN  IF disc_folders = <<>>
             THEN [ok |-> FALSE, d |-> d]
             ELSE [ok |-> TRUE,
                   d |-> [d EXCEPT !.found_versions =
                             [dir |-> d.local_path, vers |-> disc_folders]]]

\* utils lines 69-113
get_local_versions(d, dk, kwargs, context_type, key_str, ord) ==
    IF context_type = PyNone \/ key_str = <<PyNone>>
    THEN [ok |-> FALSE, d |-> d]
    ELSE LET path == IF context_type \in {ASSET, SHOT}
                     THEN eval_path(kwargs)
                     ELSE d.local_path
             d1 == [d EXCEPT !.local_path = path]
         IN  IF path = PyNone
             THEN [ok |-> FALSE, d |-> d1]
             ELSE search_for_versions(d1, dk, key_str, ord)

\* gui lines 559-580, for a project that is not None
pack_kwargs(d) ==
    IF d.context_type = ASSET
    THEN <<ASSET, d.project, d.asset_type, d.asset_name, d.asset_disc>>
    ELSE IF d.context_type = SHOT
    THEN <<SHOT, d.project, d.seq_name, d.shot_name, d.shot_disc>>
    ELSE <<d.project>>

\* gui lines 534-557; self.project.name of a None project raises
\* AttributeError (line 567), "_".join of a None raises TypeError (line 552)
get_versions_and_display(d0, dk, ord) ==
    LET d == [d0 EXCEPT !.gvd = TRUE]
    IN  IF d.project = PyNone
        THEN [d EXCEPT !.raised = "AttributeError"]
        ELSE IF d.context_type = ASSET
        THEN LET r == get_local_versions(d, dk, pack_kwargs(d),
                                         d.context_type, <<d.asset_name>>,
                                         ord)
             IN  IF r.ok THEN populate_tree_view(r.d) ELSE r.d
        ELSE IF d.context_type = SHOT
        THEN IF PyNone \in {d.shot_disc, d.seq_name, d.shot_name}
             THEN [d EXCEPT !.raised = "TypeError"]
             ELSE LET shot_str == <<d.shot_disc, d.seq_name, d.shot_name>>
                      r == get_local_versions(d, dk, pack_kwargs(d),
                                              d.context_type, shot_str, ord)
                  IN  IF r.ok THEN populate_tree_view(r.d) ELSE r.d
        ELSE d

\* gui lines 471-473: shot_disc_changed of "None" or ""
shot_disc_unset(d) == [d EXCEPT !.shot_disc = PyNone]

\* gui lines 461-483
shot_disc_changed(d, dk, value, ord) ==
    IF value = "None" \/ value = ""
    THEN shot_disc_unset(d)
    ELSE get_versions_and_display(
             [clear_tree_contents(d) EXCEPT !.shot_disc = value], dk, ord)

\* shot_disc_cb.setCurrentText("None") (gui lines 385, 427)
ShotDiscToNone(d) ==
    IF d.shot_disc_cb.cur = "None"
    THEN d
    ELSE shot_disc_unset([d EXCEPT !.shot_disc_cb.cur = "None"])

\* gui lines 439-443: as_disc_shot_changed of "None" or ""
as_disc_shot_unset(d) ==
    set_shot_disc_state(
        [d EXCEPT !.asset_disc = PyNone, !.shot_name = PyNone], FALSE)

\* gui lines 429-458
as_disc_shot_changed(d, dk, value, ord) ==
    IF value = "None" \/ value = ""
    THEN as_disc_shot_unset(d)
    ELSE LET d1 == clear_tree_contents(d)
         IN  IF d1.context_type = ASSET
             THEN get_versions_and_display(
                      [d1 EXCEPT !.asset_disc = value], dk, ord)
             ELSE IF d1.context_type = SHOT
             THEN set_shot_disc_state([d1 EXCEPT !.shot_name = value], TRUE)
             ELSE d1

\* as_disc_shot_cb.clear(); addItems(["None"]); setCurrentText("None");
\* setEnabled(True) (gui lines 405-408)
ResetAsDiscShot(d) ==
    LET d1 == IF d.as_disc_shot_cb.items = <<>>
              THEN d
              ELSE as_disc_shot_unset(
                       [d EXCEPT !.as_disc_shot_cb.items = <<>>,
                                 !.as_disc_shot_cb.cur = ""])
        d2 == as_disc_shot_unset(
                  [d1 EXCEPT !.as_disc_shot_cb.items = <<"None">>,
                             !.as_disc_shot_cb.cur = "None"])
    IN  [d2 EXCEPT !.as_disc_shot_cb.enabled = TRUE]

\* gui lines 397-401: as_seq_changed of "None" or ""
as_seq_unset(d) ==
    [d EXCEPT !.asset_name = PyNone, !.seq_name = PyNone,
              !.as_disc_shot_cb.enabled = FALSE]

\* gui lines 387-427; self.project.get_asset / get_shot_names of a None
\* project raises AttributeError (lines 416, 424)
as_seq_changed(d, value) ==
    IF value = "None" \/ value = ""
    THEN as_seq_unset(d)
    ELSE LET d1 == clear_tree_contents(ResetAsDiscShot(d))
         IN  IF d1.context_type = ASSET
             THEN IF d1.project = PyNone
                  THEN [d1 EXCEPT !.asset_name = value,
                                  !.raised = "AttributeError"]
                  ELSE [d1 EXCEPT !.asset_name = value,
                                  !.asset_type = AssetType,
                                  !.as_disc_shot_cb.items =
                                      @ \o asset_disc_list]
             ELSE IF d1.context_type = SHOT
             THEN IF d1.project = PyNone
                  THEN [d1 EXCEPT !.seq_name = value,
                                  !.raised = "AttributeError"]
                  ELSE ShotDiscToNone(
                           [d1 EXCEPT !.seq_name = value,
                                      !.as_disc_shot_cb.items =
                                          @ \o ShotNames])
             ELSE d1

\* as_seq_cb.clear(); addItems(["None"]); setCurrentText("None");
\* setEnabled(True) (gui lines 355-358)
ResetAsSeq(d) ==
    LET d1 == IF d.as_seq_cb.items = <<>>
              THEN d
              ELSE as_seq_unset([d EXCEPT !.as_seq_cb.items = <<>>,
                                          !.as_seq_cb.cur = ""])
        d2 == as_seq_unset([d1 EXCEPT !.as_seq_cb.items = <<"None">>,
                                      !.as_seq_cb.cur = "None"])
    IN  [d2 EXCEPT !.as_seq_cb.enabled = TRUE]

\* gui lines 346-349: context_changed of "None"
context_unset(d) ==
    [d EXCEPT !.context_type = PyNone, !.as_seq_cb.enabled = FALSE]

\* gui lines 336-385; self.project.get_asset_names / get_sequence_names of
\* a None project raises AttributeError (lines 367, 379)
context_changed(d, value) ==
    IF value = "None"
    THEN context_unset(d)
    ELSE LET d1 == clear_tree_contents(
                       ResetAsSeq([d EXCEPT !.context_type = value]))
         IN  IF d1.project = PyNone
             THEN [d1 EXCEPT !.raised = "AttributeError"]
             ELSE IF d1.context_type = ASSET
             THEN set_shot_disc_state(
                      [d1 EXCEPT !.as_seq_cb.items = @ \o AssetNames], FALSE)
             ELSE ShotDiscToNone(
                      [d1 EXCEPT !.as_seq_cb.items = @ \o SequenceNames])

\* gui lines 306-334
project_changed(d, value) ==
    IF value = "None"
    THEN [d EXCEPT !.project = PyNone, !.context_cb.enabled = FALSE]
    ELSE LET d1 == [d EXCEPT !.project = value, !.context_cb.enabled = TRUE]
             d2 == IF d1.context_cb.cur = "None"
                   THEN d1
                   ELSE context_unset(
                            [d1 EXCEPT !.context_cb.cur = "None"])
         IN  clear_tree_contents(set_shot_disc_state(
                 [d2 EXCEPT !.as_seq_cb.enabled = FALSE,
                            !.as_disc_shot_cb.enabled = FALSE], FALSE))

\* gui lines 668-688
check_all_clicked(d) ==
    IF ~verify_versions(d)
    THEN d
    ELSE [d EXCEPT !.tree = [i \in 1..Len(@) |->
             IF @[i].enabled /\ ~@[i].checked
             THEN [@[i] EXCEPT !.checked = TRUE] ELSE @[i]]]

\* gui lines 690-710
uncheck_all_clicked(d) ==
    IF ~verify_versions(d)
    THEN d
    ELSE [d EXCEPT !.tree = [i \in 1..Len(@) |->
             IF @[i].enabled /\ @[i].checked
             THEN [@[i] EXCEPT !.checked = FALSE] ELSE @[i]]]

\* the first version of checked whose folder cannot be removed
FirstFail(checked, fails) ==
    IF \E i \in 1..Len(checked) : checked[i] \in fails
    THEN SetMin({i \in 1..Len(checked) : checked[i] \in fails})
    ELSE Len(checked) + 1

\* a delete_versions that pops the versions from found_versions and leaves
\* their folders on disk
delete_versions_dict_only(d, dk, checked, fails, windows) ==
    IF checked = <<>>
    THEN [d |-> d, dk |-> dk]
    ELSE [d |-> [d EXCEPT !.found_versions.vers =
                              SelectSeq(@, LAMBDA v : v \notin Range(checked)),
                          !.rm = [ran |-> TRUE,
                                  checked |-> Range(checked),
                                  fails |-> fails]],
          dk |-> dk]

\* utils lines 178-206: [d, dk].  shutil.rmtree raises for the versions in
\* fails.  "except WindowsError or OSError" is "except WindowsError": where
\* Python defines that name (windows) the version is skipped and stays on
\* disk and in found_versions; elsewhere evaluating the name raises
\* NameError, which ends the loop and the call.
delete_versions(d, dk, checked, fails, windows) ==
    IF checked = <<>>
    THEN [d |-> d, dk |-> dk]
    ELSE LET stop == IF windows THEN Len(checked) + 1
                                ELSE FirstFail(checked, fails)
             gone == {checked[i] : i \in 1..(stop - 1)} \ fails
             dir_path == d.found_versions.dir
         IN  [d |-> [d EXCEPT !.found_versions.vers =
                                  SelectSeq(@, LAMBDA v : v \notin gone),
                              !.raised = IF stop <= Len(checked)
                                         THEN "NameError" ELSE @,
                              !.rm = [ran |-> TRUE,
                                      checked |-> Range(checked),
                                      fails |-> fails]],
              dk |-> [dk EXCEPT ![dir_path].vers = @ \ gone]]

\* a delete_btn_clicked that shows the confirmation dialog and ignores its
\* answer
delete_btn_unconfirmed(d, dk, result, fails, windows) ==
    LET checked_rows == SelectSeq(d.tree, LAMBDA row : row.checked)
        checked_dict == [i \in 1..Len(checked_rows) |-> checked_rows[i].ver]
    IN  IF ~verify_versions(d) \/ checked_dict = <<>>
        THEN [d |-> d, dk |-> dk]
        ELSE LET d1 == [d EXCEPT !.tree =
                           SelectSeq(@, LAMBDA row : ~row.checked)]
                 r == delete_versions(d1, dk, checked_dict, fails, windows)
             IN  [d |-> IF r.d.raised = ""
                        THEN calculate_new_total_size(r.d) ELSE r.d,
                  dk |-> r.dk]

\* gui lines 614-666: [d, dk]; result is the confirmation dialog's answer.
\* An exception of delete_versions leaves the slot before line 666.
delete_btn_clicked(d, dk, result, fails, windows) ==
    LET checked_rows == SelectSeq(d.tree, LAMBDA row : row.checked)
        checked_dict == [i \in 1..Len(checked_rows) |-> checked_rows[i].ver]
    IN  IF ~verify_versions(d) \/ checked_dict = <<>> \/ ~result
        THEN [d |-> d, dk |-> dk]
        ELSE LET d1 == [d EXCEPT !.tree =
                           SelectSeq(@, LAMBDA row : ~row.checked)]
                 r == delete_versions(d1, dk, checked_dict, fails, windows)
             IN  [d |-> IF r.d.raised = ""
                        THEN calculate_new_total_size(r.d) ELSE r.d,
                  dk |-> r.dk]

(***************************************************************************)
(* What the user does with the dialog.                                     *)
(***************************************************************************)
\* a handler starts: nothing has been raised yet
Begin(d) == [d EXCEPT !.raised = "", !.rm = NoDelete, !.gvd = FALSE]

\* the user picks another project
SelectProject ==
    /\ \E v \in Range(dlg.project_cb.items) \ {dlg.project_cb.cur} :
         dlg' = project_changed(
                    [Begin(dlg) EXCEPT
                        !.project_cb.cur = v], v)
    /\ UNCHANGED <<disk, platform, codecVars>>

\* the user picks another context
SelectContext ==
    /\ dlg.context_cb.enabled
    /\ \E v \in Range(dlg.context_cb.items) \ {dlg.context_cb.cur} :
         dlg' = context_changed(
                    [Begin(dlg) EXCEPT
                        !.context_cb.cur = v], v)
    /\ UNCHANGED <<disk, platform, codecVars>>

\* the user picks another asset or sequence
SelectAsSeq ==
    /\ dlg.as_seq_cb.enabled
    /\ \E v \in Range(dlg.as_seq_cb.items) \ {dlg.as_seq_cb.cur} :
         dlg' = as_seq_changed(
                    [Begin(dlg) EXCEPT
                        !.as_seq_cb.cur = v], v)
    /\ UNCHANGED <<disk, platform, codecVars>>

\* the user picks another asset discipline or shot
SelectAsDiscShot ==
    /\ dlg.as_disc_shot_cb.enabled
    /\ \E v \in Range(dlg.as_disc_shot_cb.items) \ {dlg.as_disc_shot_cb.cur},
          ord \in ListOrders :
         dlg' = as_disc_shot_changed(
                    [Begin(dlg) EXCEPT
                        !.as_disc_shot_cb.cur = v], disk, v, ord)
    /\ UNCHANGED <<disk, platform, codecVars>>

\* the user picks another shot discipline
SelectShotDisc ==
    /\ dlg.shot_disc_cb.enabled
    /\ \E v \in Range(dlg.shot_disc_cb.items) \ {dlg.shot_disc_cb.cur},
          ord \in ListOrders :
         dlg' = shot_disc_changed(
                    [Begin(dlg) EXCEPT
                        !.shot_disc_cb.cur = v], disk, v, ord)
    /\ UNCHANGED <<disk, platform, codecVars>>

\* the user clicks the checkbox of a row that has ItemIsEnabled
ToggleRow ==
    /\ \E i \in 1..Len(dlg.tree) :
         /\ dlg.tree[i].enabled
         /\ dlg' = [Begin(dlg) EXCEPT
                       !.tree[i].checked = ~dlg.tree[i].checked]
    /\ UNCHANGED <<disk, platform, codecVars>>

CheckAll ==
    /\ dlg' = check_all_clicked(Begin(dlg))
    /\ UNCHANGED <<disk, platform, codecVars>>

UncheckAll ==
    /\ dlg' = uncheck_all_clicked(Begin(dlg))
    /\ UNCHANGED <<disk, platform, codecVars>>

\* Delete Checked: the user accepts or rejects the confirmation, and
\* shutil.rmtree fails for any of the checked versions
DeleteChecked ==
    /\ \E result \in BOOLEAN,
          fails \in SUBSET {dlg.tree[i].ver : i \in {j \in 1..Len(dlg.tree) :
                                                       dlg.tree[j].checked}} :
         /\ result \/ fails = {}
         /\ LET r == delete_btn_clicked(Begin(dlg), disk, result, fails,
                                        platform = "windows")
            IN  /\ dlg' = r.d
                /\ disk' = r.dk
    /\ UNCHANGED <<platform, codecVars>>

NextGui ==
    \/ SelectProject
    \/ SelectContext
    \/ SelectAsSeq
    \/ SelectAsDiscShot
    \/ SelectShotDisc
    \/ ToggleRow
    \/ CheckAll
    \/ UncheckAll
    \/ DeleteChecked

\* the codec at rest in an empty scene
InitCodecIdle ==
    /\ scene = EmptyScene
    /\ selection = {}
    /\ file = <<>>
    /\ InitGhost

\* the dialog just opened, not used
InitGuiIdle ==
    /\ dlg = InitDlg
    /\ disk = InitDisk(MaxVersions)
    /\ platform = "windows"

InitGui ==
    /\ InitCodecIdle
    /\ dlg = InitDlg
    /\ disk = InitDisk(MaxVersions)
    /\ platform \in {"windows", "posix"}

Init == InitCodec /\ InitGuiIdle

Next == NextCodec

Spec == Init /\ [][Next]_vars

SpecGui == InitGui /\ [][NextGui]_vars

(***************************************************************************)
(* Properties of the codec.                                                *)
(***************************************************************************)
Subtree(sc, r) == {n \in Nodes(sc) : r \in AncestorsOrSelf(sc, n)}

Wrote == lastOp = "write" /\ retval = RetBool(TRUE)

\* the nodes of the child Elements of Element e, in document order
KidNodes(e) == [i \in 1..Len(KidsOf(e)) |-> wsrc[KidsOf(e)[i]]]

\* one Element per node of the written subtree, nested as the nodes are,
\* children in the order the host lists them
WriteShapeOK ==
    /\ \A i, j \in 1..Len(file) : wsrc[i] = wsrc[j] => i = j
    /\ Range(wsrc) = Subtree(scene, wsrc[1])
    /\ file[1].par = 0
    /\ \A i \in 2..Len(file) : wsrc[file[i].par] = scene.parent[wsrc[i]]
    /\ \A i \in 1..Len(file) : KidNodes(i) = Children(scene, wsrc[i])

WriteTagsOK == \A i \in 1..Len(file) : file[i].tag = <<scene.name[wsrc[i]]>>

\* C1: after write_xml the document is isomorphic to the subtree under the
\* selected joint: one Element per node, every tag its node's name, the same
\* nesting, and child Elements in the order the host lists the children.
C1_SerializeIsomorphic == Wrote => (WriteShapeOK /\ WriteTagsOK)

\* C7: write_xml / deeper_write only query the host: a write_xml step leaves
\* the nodes of the scene, their names, parent/child links, order and
\* positions, and the selection, as they were.
C7_SerializeReadOnly ==
    [][lastOp' = "write" => (scene' = scene /\ selection' = selection)]_vars

\* a hierarchy of several nodes has been written
C7_Witness == Wrote /\ Len(file) >= 3 /\ scene = worig

\* -?\d+\.\d{3}
MatchesFmt(s) ==
    LET b == IF s # <<>> /\ s[1] = "-" THEN Tail(s) ELSE s
    IN  /\ Len(b) >= 5
        /\ b[Len(b) - 3] = "."
        /\ \A i \in 1..Len(b) : i # Len(b) - 3 => IsDigit(b[i])

\* C8: every Element write_xml emitted carries exactly translateX,
\* translateY and translateZ, each matching -?\d+\.\d{3}, and a node without
\* children gave an Element without child Elements.
C8_AttributeFormat ==
    wsrc # <<>> =>
        \A i \in 1..Len(file) :
            /\ DOMAIN file[i].attrs = KeySet
            /\ \A k \in KeySet : MatchesFmt(file[i].attrs[k])
            /\ Children(worig, wsrc[i]) = <<>> => ElemKids(file, i) = {}

\* a written document with a leaf, a negative value and a two-digit integer
\* part
C8_Witness ==
    /\ wsrc # <<>>
    /\ \E i \in 1..Len(file) :
         /\ Children(worig, wsrc[i]) = <<>>
         /\ file[i].attrs["translateY"] = <<"-", "0", ".", "0", "6", "2">>
         /\ file[i].attrs["translateZ"] = <<"1", "2", ".", "5", "0", "0">>
    /\ \E i \in 1..Len(file) : ElemKids(file, i) # {}

ReadEnded == lastOp = "read" /\ rstate \in {"done", "error"}

SiblingUniqueTags(doc) ==
    \A i, j \in 1..Len(doc) :
        (i # j /\ doc[i].par = doc[j].par) => doc[i].tag # doc[j].tag

AllAttrs(doc) == \A i \in 1..Len(doc) : HasAttrs(doc[i])

\* the nodes made for the child Elements of Element e, in document order
MadeKids(e) == [i \in 1..Len(KidsOf(e)) |-> made[KidsOf(e)[i]]]

\* every Element has its own node, and the children of the node of an
\* Element are exactly the nodes of its child Elements, in document order
ReadShapeOK ==
    /\ \A e \in 1..Len(file) : made[e] # 0
    /\ \A e \in 1..Len(file) : Children(scene, made[e]) = MadeKids(e)

\* C2: for a document whose tags are unique among siblings (and whose
\* Elements all carry the three attributes) deeper_read ends with a new
\* subtree isomorphic to the document: the node made for an Element, and no
\* other node, is a child of the node made for its parent Element, siblings
\* in document order.
C2_DeserializeIsomorphic ==
    (ReadEnded /\ SiblingUniqueTags(file) /\ AllAttrs(file)) =>
        (rstate = "done" /\ ReadShapeOK)

Within(a, b, eps) == Abs(a - b) <= eps

\* the positions of the written subtree are multiples of 0.001 (32 units)
WrittenMultiples ==
    \A i \in 1..Len(wsrc) : \A c \in 1..3 : worig.pos[wsrc[i]][c] % 32 = 0

\* C3: round trip.  When the positions of the written tree are multiples of
\* 0.001, reading the file write_xml wrote gives a tree isomorphic to the
\* original: same names, same nesting and order, every position within
\* 0.0005 (16 units) of the original.
C3_RoundTrip ==
    (/\ lastOp = "read"
     /\ wsrc # <<>>
     /\ WrittenMultiples
     /\ (rstate \in {"done", "error"} \/ retval = RetRaised)) =>
        /\ rstate = "done"
        /\ ReadShapeOK
        /\ \A i \in 1..Len(file) :
             /\ scene.name[made[i]] = worig.name[wsrc[i]]
             /\ \A c \in 1..3 :
                  Within(scene.pos[made[i]][c], worig.pos[wsrc[i]][c], 16)

\* C4: deeper_read makes exactly one new node per Element and leaves every
\* node that was in the scene before the call as it was (name, parent,
\* position), also when such a node has the name of a tag.
C4_NoExistingNodeTouched ==
    lastOp = "read" =>
        /\ \A n \in Nodes(pre) :
             /\ scene.name[n] = pre.name[n]
             /\ scene.parent[n] = pre.parent[n]
             /\ scene.pos[n] = pre.pos[n]
        /\ rstate = "done" =>
             /\ Len(scene.name) = Len(pre.name) + Len(file)
             /\ \A e \in 1..Len(file) : made[e] \notin Nodes(pre) \cup {0}
             /\ \A e, f \in 1..Len(file) : made[e] = made[f] => e = f

Incomplete(doc) == {i \in 1..Len(doc) : ~HasAttrs(doc[i])}

IsChain(doc) == \A i \in 1..Len(doc) : doc[i].par = i - 1

\* C9: reading a tree of k Elements takes k node creations and k - 1 reparent
\* calls, and a chain of N nested Elements gives a chain of N nodes.
C9_DepthFidelity ==
    (ReadEnded /\ AllAttrs(file)) =>
        /\ nCreate = Len(file)
        /\ nParent = Len(file) - 1
        /\ IsChain(file) =>
             \A e \in 2..Len(file) : scene.parent[made[e]] = made[e - 1]

\* C10 as claimed: after a successful read the root of the new subtree is
\* returned by deeper_read or read_xml, or left as the host's selection.
C10_RootReturned ==
    (lastOp = "read" /\ rstate = "done") =>
        \/ retval.kind = "node"
        \/ drRet.kind = "node"
        \/ selection = {made[1]}

\* C10 as amended: after a successful read deeper_read has returned None and
\* read_xml the boolean True; the root of the new subtree is in the scene
\* and is neither returned nor selected.
C10_ReturnsTrueOnly ==
    (lastOp = "read" /\ rstate = "done") =>
        /\ drRet.kind = "None"
        /\ retval.kind = "bool"
        /\ retval.val
        /\ made[1] \in Nodes(scene) \ Nodes(pre)
        /\ made[1] \notin selection

\* a document of several Elements has been read to the end
C10_Witness ==
    /\ lastOp = "read"
    /\ rstate = "done"
    /\ Len(file) >= 3
    /\ ReadShapeOK

(***************************************************************************)
(* Properties of the dialog.                                               *)
(***************************************************************************)
\* the most recent versions of a folder: the highest version numbers
Top3(S) == {v \in S : Cardinality({w \in S : w > v}) < Protected}

\* C6: in every step, no version folder among the three most recent of its
\* discipline folder is removed from disk.
C6_RecentNeverRemoved ==
    [][\A p \in Dirs :
          (disk[p].vers \ disk'[p].vers) \cap Top3(disk[p].vers) = {}]_vars


(***************************************************************************)
(* delete_versions and the Delete Checked button.                          *)
(***************************************************************************)
\* the versions found_versions holds, and those the listed folder holds
FoundSet == Range(dlg.found_versions.vers)
OnDisk == disk[dlg.found_versions.dir].vers

\* C11: when removing a checked version's folder fails, that version stays
\* in found_versions and every other checked version is still removed from
\* disk and from found_versions.
C11_FailureSkipsOneVersion ==
    dlg.rm.ran =>
        /\ \A v \in dlg.rm.fails : v \in FoundSet
        /\ \A v \in dlg.rm.checked \ dlg.rm.fails :
               v \notin FoundSet /\ v \notin OnDisk

(***************************************************************************)
(* deeper_read called again, and the order of its steps.                   *)
(***************************************************************************)
\* this read follows a read of the same document that went through
SecondRead == lastOp = "read" /\ prevMade # <<>>

\* C12: a second deserialize of the same document ends with a complete set
\* of nodes of its own, linked only to each other (the root's node is
\* top-level, every other node is a child of the node of its parent
\* Element), and leaves the nodes of the first call as they were: name,
\* parent, position and children.
C12_SecondCallIndependent ==
    (SecondRead /\ rstate \in {"done", "error"}) =>
        /\ rstate = "done"
        /\ \A e \in 1..Len(file) :
             /\ made[e] \notin Range(prevMade) \cup {0}
             /\ scene.parent[made[e]] =
                    (IF file[e].par = 0 THEN 0 ELSE made[file[e].par])
        /\ \A e \in 1..Len(file) :
             LET n == prevMade[e]
             IN  /\ scene.name[n] = pre.name[n]
                 /\ scene.parent[n] = pre.parent[n]
                 /\ scene.pos[n] = pre.pos[n]
                 /\ Children(scene, n) = Children(pre, n)

\* C13: every node deeper_read creates is created without a parent,
\* whatever is selected when the call starts or after an earlier step of
\* the call.
C13_CreatedParentless ==
    lastOp = "read" =>
        \A e \in 1..Len(made) : made[e] # 0 => madeUnder[e] = 0

\* the Elements below Element e of the document being read
ElemDescendants(e) ==
    LET par == [i \in 1..Len(file) |-> file[i].par]
    IN  {f \in 1..Len(file) : f # e /\ e \in ElemAncestors(par, f)}

\* C14: both traversals are pre-order.  When deeper_read creates the node
\* of an Element, the nodes of all its ancestors exist and none of its
\* descendants has a node; when it reparents a child, the child's whole
\* subtree has been created and the parent Element's node exists; in a
\* document write_xml wrote every Element comes after its parent Element
\* and carries its three attributes.
C14_PreOrder ==
    [][/\ (rstate = "running" /\ nCreate' = nCreate + 1) =>
            LET e == Top.elem
                par == [i \in 1..Len(file) |-> file[i].par]
            IN  /\ \A a \in ElemAncestors(par, e) \ {e} : made[a] # 0
                /\ \A f \in ElemDescendants(e) \cup {e} : made[f] = 0
                /\ made'[e] # 0
       /\ (rstate = "running" /\ nParent' = nParent + 1) =>
            LET e == Top.elem
            IN  /\ \A f \in ElemDescendants(e) \cup {e} : made[f] # 0
                /\ file[e].par # 0
                /\ made[file[e].par] # 0
       /\ (lastOp' = "write" /\ retval' = RetBool(TRUE) /\ ops' = ops + 1) =>
            \A i \in 1..Len(file') :
                /\ file'[i].par < i
                /\ DOMAIN file'[i].attrs = KeySet
      ]_vars

\* a written tree of three nodes was read back in a new scene: three nodes
\* created and two reparented
C14_Witness ==
    /\ lastOp = "read"
    /\ rstate = "done"
    /\ wsrc # <<>>
    /\ nCreate = 3
    /\ nParent = 2

\* the versions of the checked rows of the tree
CheckedVersions == {dlg.tree[i].ver : i \in {j \in 1..Len(dlg.tree) :
                                                 dlg.tree[j].checked}}

\* C15: in every reachable state of the dialog, whatever the user answers
\* and whichever removals fail, Delete Checked removes a folder from disk
\* or a row from the tree only if found_versions holds more than 3
\* versions, a row is checked and the confirmation was accepted.
C15_DeleteNeedsAllThree ==
    \A result \in BOOLEAN, fails \in SUBSET CheckedVersions :
        LET r == delete_btn_clicked(Begin(dlg), disk, result, fails,
                                    platform = "windows")
        IN  (r.dk # disk \/ r.d.tree # dlg.tree) =>
                /\ Len(dlg.found_versions.vers) > 3
                /\ CheckedVersions # {}
                /\ result

\* Delete Checked has removed a folder from disk
C15_Witness ==
    /\ dlg.rm.ran
    /\ disk # InitDisk(MaxVersions)
    /\ \A row \in Range(dlg.tree) : row.ver \notin dlg.rm.checked

\* C16: in every reachable state, for every list checked of versions of
\* found_versions, delete_versions(checked) with no failing removal leaves
\* found_versions and the folder on disk without exactly the checked
\* versions, every other entry and every other folder as it was; with an
\* empty list nothing changes.
C16_DeletesExactlyChecked ==
    \A S \in SUBSET FoundSet :
        LET checked == SelectSeq(dlg.found_versions.vers, LAMBDA v : v \in S)
            r == delete_versions(dlg, disk, checked, {}, platform = "windows")
            dir == dlg.found_versions.dir
        IN  IF S = {}
            THEN r.d = dlg /\ r.dk = disk
            ELSE /\ r.d.found_versions.dir = dir
                 /\ r.d.found_versions.vers =
                        SelectSeq(dlg.found_versions.vers,
                                  LAMBDA v : v \notin S)
                 /\ r.dk[dir].vers = disk[dir].vers \ S
                 /\ S \subseteq disk[dir].vers
                 /\ \A p \in DOMAIN disk \ {dir} : r.dk[p] = disk[p]
                 /\ r.dk[dir] = [disk[dir] EXCEPT !.vers = @ \ S]
                 /\ r.d.raised = dlg.raised

\* delete_versions was given some versions, no removal failed, and the
\* versions are gone from found_versions and from disk
C16_Witness ==
    /\ dlg.rm.ran
    /\ dlg.rm.checked # {}
    /\ dlg.rm.fails = {}
    /\ dlg.rm.checked \cap (FoundSet \cup OnDisk) = {}
    /\ FoundSet # {}

(***************************************************************************)
(* The input boxes of the dialog.                                          *)
(***************************************************************************)
\* C17: whenever get_versions_and_display has run, the dialog holds what
\* resolving the local path needs: a project and, in asset context, the
\* asset's name, type and discipline, in shot context the sequence, the
\* shot and the shot's discipline.
C17_EnoughToResolvePath ==
    dlg.gvd =>
        /\ dlg.project # PyNone
        /\ dlg.context_type = ASSET =>
               PyNone \notin {dlg.asset_name, dlg.asset_type, dlg.asset_disc}
        /\ dlg.context_type = SHOT =>
               PyNone \notin {dlg.seq_name, dlg.shot_name, dlg.shot_disc}

\* C18: cascading lock.  After the user changes the project box the
\* asset/sequence, asset-discipline/shot and shot-discipline boxes are
\* disabled; after a change of the context box the asset-discipline/shot
\* and shot-discipline boxes are; after a change of the asset/sequence box
\* the shot-discipline box is.
C18_CascadingLock ==
    [][/\ dlg'.project_cb.cur # dlg.project_cb.cur =>
            /\ ~dlg'.as_seq_cb.enabled
            /\ ~dlg'.as_disc_shot_cb.enabled
            /\ ~dlg'.shot_disc_cb.enabled
       /\ (/\ dlg'.context_cb.cur # dlg.context_cb.cur
           /\ dlg'.project_cb.cur = dlg.project_cb.cur) =>
            /\ ~dlg'.as_disc_shot_cb.enabled
            /\ ~dlg'.shot_disc_cb.enabled
       /\ (/\ dlg'.as_seq_cb.cur # dlg.as_seq_cb.cur
           /\ dlg'.context_cb.cur = dlg.context_cb.cur
           /\ dlg'.project_cb.cur = dlg.project_cb.cur) =>
            ~dlg'.shot_disc_cb.enabled
      ]_vars

\* the folder the texts of the input boxes resolve to, PyNone when a box
\* the context needs shows "None"
SelectedDir ==
    LET picks == IF dlg.context_cb.cur = ASSET
                 THEN <<ASSET, dlg.project_cb.cur, AssetType,
                        dlg.as_seq_cb.cur, dlg.as_disc_shot_cb.cur>>
                 ELSE IF dlg.context_cb.cur = SHOT
                 THEN <<SHOT, dlg.project_cb.cur, dlg.as_seq_cb.cur,
                        dlg.as_disc_shot_cb.cur, dlg.shot_disc_cb.cur>>
                 ELSE <<"None">>
    IN  IF \E i \in 1..Len(picks) : picks[i] \in {"None", ""}
        THEN PyNone
        ELSE picks

\* C19: the tree never lists versions of a folder other than the one the
\* current selection of the five input boxes resolves to: after any change
\* of a box the tree is empty or shows the versions found for the new
\* selection.
C19_TreeOfCurrentSelection ==
    dlg.tree # <<>> => dlg.found_versions.dir = SelectedDir

(***************************************************************************)
(* What read_xml returns.                                                  *)
(***************************************************************************)
\* C20: every read_xml call ends by returning a boolean, True only after
\* the hierarchy was rebuilt, and a call that does not return True has
\* created no node.
C20_BooleanResult ==
    (lastOp = "read" /\ rstate # "running") =>
        /\ retval \in {RetBool(TRUE), RetBool(FALSE)}
        /\ retval = RetBool(TRUE) => rstate = "done"
        /\ retval # RetBool(TRUE) => Len(scene.name) = Len(pre.name)

=============================================================================
